---------------------------- MODULE Spec2Model ----------------------------
(***************************************************************************)
(* A model of the simple-agent repository:                                 *)
(*   - the MCP server (apps/mcp-server/src/server.ts): the in-memory       *)
(*     search cache, its cleanup, the search_web and save_to_db handlers   *)
(*     and the topic_news repository they write to;                        *)
(*   - the CLI agent's dispatch loop (apps/cli): the model node, the       *)
(*     tools node and the conditional edge between them.                   *)
(*                                                                         *)
(* Text is modelled as a sequence of one-character strings so that trim,   *)
(* slice and URL parsing are computed rather than assumed.  An optional    *)
(* field (title?: string) is a sequence of length 0 (undefined) or 1.      *)
(***************************************************************************)
EXTENDS Integers, Sequences, FiniteSets

VARIABLES
    searchCache,   \* the Map, as the sequence of its entries in insertion order
    rows,          \* the topic_news table, in insertion (= id) order
    now,           \* what Date.now() returns, in ms
    warm,          \* whether exploration starts from the warm cache (see Init)
    issued,        \* history: result_id -> what search_web stored under it
    rowOrigin,     \* history: for each row, the result_id it was saved from
    ops,           \* how many handler calls and clock movements have happened
    lastOp         \* the outcome of the latest server handler

serverVars == <<searchCache, rows, now, warm, issued, rowOrigin, ops, lastOp>>

VARIABLES
    node,          \* where the graph stands: "idle", "model", "tools" or "END"
    running,       \* the thread_id of the turn in progress (or of the last one)
    checkpoint,    \* thread_id -> the messages the checkpointer holds for it
    modelVisits,   \* this turn: runs of the model node
    toolVisits,    \* this turn: runs of the tools node
    toolResponses, \* this turn: model responses that carried tool calls
    prompt,        \* the messages the model was invoked with by the latest step
    window         \* how many of a thread's newest messages are represented

loopVars ==
    <<node, running, checkpoint, modelVisits, toolVisits, toolResponses, prompt,
      window>>

VARIABLES
    reply          \* what the latest read of the repository returned

readVars == <<reply>>

VARIABLES
    streaming,     \* runTurn is reading the stream of a turn
    chunks,        \* the chunks the stream has yielded in this turn, in order
    stdout,        \* the writes to standard output in this turn, in order
    streamed       \* runTurn's local text

streamVars == <<streaming, chunks, stdout, streamed>>

VARIABLES
    env,           \* the names of the environment variables that have a value
    offered,       \* the names of the tools the server's endpoint offers
    server,        \* the server process: "down" or "listening"
    agent,         \* the agent process: "down", "ready" or "failed"
    failure        \* where a missing credential or tool was first detected

configVars == <<env, offered, server, agent, failure>>

VARIABLES
    pending        \* for each session, the queries of its search_web requests
                   \* that are waiting for the search service

flightVars == <<pending>>

---------------------------------------------------------------------------
(* Bounds of the model (not program constants).                            *)

\* handler calls and clock movements explored from an initial state
MaxOps == 5
\* the clock value at which exploration starts
BootTime == 1
\* tool calls one model response may carry
MaxCalls == 2
\* rows one saveMany call is given
MaxBatch == 2
\* rows the table holds before saveMany is no longer explored
MaxStored == 3
\* saveMany calls and clock movements explored on the repository alone
MaxRepoOps == 4
\* search_web and save_to_db calls explored together with the reading tools
MaxToolOps == 3
\* the per-turn visit counters stop counting here
VisitCap == 3

---------------------------------------------------------------------------
(* Program constants.                                                      *)

SEARCH_CACHE_TTL_MS == 1800000
SEARCH_CACHE_MAX_ITEMS == 200
SUMMARY_MAX_CHARS == 1500
SAVE_MAX_SOURCES == 5
LIST_BY_TOPIC_DEFAULT == 10
LIST_ALL_DEFAULT == 100
GET_FROM_DB_DEFAULT_LIMIT == 10
GET_FROM_DB_MAX_LIMIT == 50
GET_ALL_FROM_DB_DEFAULT_LIMIT == 100
GET_ALL_FROM_DB_MAX_LIMIT == 500

---------------------------------------------------------------------------
(* Text.                                                                   *)

SP == " "

None == <<>>
Some(t) == <<t>>

Min(a, b) == IF a < b THEN a ELSE b

\* String.prototype.trim: whitespace is removed from both ends.
RECURSIVE TrimStart(_)
TrimStart(t) == IF t # <<>> /\ Head(t) = SP THEN TrimStart(Tail(t)) ELSE t

RECURSIVE TrimEnd(_)
TrimEnd(t) ==
    IF t # <<>> /\ t[Len(t)] = SP THEN TrimEnd(SubSeq(t, 1, Len(t) - 1)) ELSE t

Trim(t) == TrimEnd(TrimStart(t))

\* String.prototype.slice(0, n)
Slice0(t, n) == SubSeq(t, 1, Min(Len(t), n))

\* x?.trim(): undefined stays undefined
OptTrim(o) == IF o = None THEN None ELSE Some(Trim(o[1]))

\* mutant of Truthy: only undefined is falsy, as under a ?? b
Truthy_defined(o) == o # None

\* a || b on optional text: undefined and "" are falsy
Truthy(o) == o # None /\ o[1] # <<>>

Untitled == <<"U", "n", "t", "i", "t", "l", "e", "d">>
Unknown == <<"u", "n", "k", "n", "o", "w", "n">>
NoSummary == <<"N", "o", " ", "s", "u", "m", "m", "a", "r", "y", " ",
               "a", "v", "a", "i", "l", "a", "b", "l", "e", ".">>


---------------------------------------------------------------------------
(* URL parsing, as far as sourceFromUrl needs it.  A text parses as a URL  *)
(* when it is a non-empty scheme of letters followed by ":" and holds no   *)
(* white space; its hostname is what follows "//" up to the next "/", and  *)
(* is empty when no "//" follows the colon.  Anything else makes           *)
(* new URL() throw.                                                        *)

IsLetter(c) == c \notin {SP, ":", "/"}

RECURSIVE LetterPrefixLen(_)
LetterPrefixLen(t) ==
    IF t # <<>> /\ IsLetter(Head(t)) THEN 1 + LetterPrefixLen(Tail(t)) ELSE 0

UrlParses(t) ==
    LET n == LetterPrefixLen(t)
    IN  /\ n >= 1
        /\ Len(t) > n
        /\ t[n + 1] = ":"
        /\ \A i \in 1..Len(t) : t[i] # SP

UrlHostname(t) ==
    LET n == LetterPrefixLen(t)
        rest == SubSeq(t, n + 2, Len(t))
    IN  IF Len(rest) >= 2 /\ rest[1] = "/" /\ rest[2] = "/"
        THEN LET auth == SubSeq(rest, 3, Len(rest))
             IN  SubSeq(auth, 1, LetterPrefixLen(auth))
        ELSE <<>>

sourceFromUrl(url) == IF UrlParses(url) THEN UrlHostname(url) ELSE Unknown

---------------------------------------------------------------------------
(* The repository (createTopicNewsRepository).                             *)

\* datetime('now'): the clock, to the second
SqlNow(t) == t \div 1000

\* mutant of insert: the id of the latest row is given out again
insert_reusedId(tbl, row, t) ==
    Append(tbl, [id |-> IF tbl = <<>> THEN 1 ELSE Len(tbl),
                 topic |-> row.topic,
                 source |-> row.source,
                 title |-> row.title,
                 url |-> row.url,
                 summary |-> row.summary,
                 created_at |-> SqlNow(t)])

\* INSERT INTO topic_news ...: the id is the next AUTOINCREMENT value
insert(tbl, row, t) ==
    Append(tbl, [id |-> Len(tbl) + 1,
                 topic |-> row.topic,
                 source |-> row.source,
                 title |-> row.title,
                 url |-> row.url,
                 summary |-> row.summary,
                 created_at |-> SqlNow(t)])

\* mutant of saveMany: the insert statement is run twice for each row
RECURSIVE saveMany_twice(_, _, _)
saveMany_twice(tbl, rs, t) ==
    IF rs = <<>>
    THEN [table |-> tbl, ids |-> <<>>]
    ELSE LET one == insert(insert(tbl, Head(rs), t), Head(rs), t)
             more == saveMany_twice(one, Tail(rs), t)
         IN  [table |-> more.table, ids |-> <<one[Len(one)].id>> \o more.ids]

\* saveMany: one insert per row, in order; returns the table and the ids
RECURSIVE saveMany(_, _, _)
saveMany(tbl, rs, t) ==
    IF rs = <<>>
    THEN [table |-> tbl, ids |-> <<>>]
    ELSE LET one == insert(tbl, Head(rs), t)
             more == saveMany(one, Tail(rs), t)
         IN  [table |-> more.table, ids |-> <<one[Len(one)].id>> \o more.ids]

\* saveMany when insert.run throws at row k (the database is full, locked
\* or not writable): the rows before k have been inserted, each by its own
\* statement, the loop is left and insertedIds is lost with the exception
saveManyThrowing(tbl, rs, t, k) ==
    [table |-> saveMany(tbl, SubSeq(rs, 1, k - 1), t).table,
     ids |-> <<>>,
     thrown |-> TRUE]

getById(tbl, id) ==
    LET hit == SelectSeq(tbl, LAMBDA r : r.id = id)
    IN  IF hit = <<>> THEN None ELSE Some(hit[1])

\* ORDER BY created_at DESC: any order of the selected rows in which
\* created_at does not increase (SQL leaves the order of equal keys open):
\* one of the newest rows comes first, then the others in such an order
Without(s, i) == SubSeq(s, 1, i - 1) \o SubSeq(s, i + 1, Len(s))

Newest(s) == {i \in 1..Len(s) : \A j \in 1..Len(s) : s[j].created_at <= s[i].created_at}

RECURSIVE OrderByCreatedAtDesc(_)
OrderByCreatedAtDesc(sel) ==
    IF sel = <<>>
    THEN {<<>>}
    ELSE UNION {{<<sel[i]>> \o rest : rest \in OrderByCreatedAtDesc(Without(sel, i))} :
                   i \in Newest(sel)}

\* mutant of SqlLimit: one row more than the limit is returned
SqlLimit_plusOne(s, limit) == IF limit < 0 THEN s ELSE Slice0(s, limit + 1)

\* LIMIT ?: the first limit rows; a negative limit is no limit in SQLite
SqlLimit(s, limit) == IF limit < 0 THEN s ELSE Slice0(s, limit)

\* selectByTopic.all(topic, limit): the results the statement may give
selectByTopic(tbl, topic, limit) ==
    {SqlLimit(p, limit) :
        p \in OrderByCreatedAtDesc(SelectSeq(tbl, LAMBDA r : r.topic = topic))}

\* selectAll.all(limit)
selectAll(tbl, limit) == {SqlLimit(p, limit) : p \in OrderByCreatedAtDesc(tbl)}

\* listByTopic(topic, limit = 10)
listByTopic(tbl, topic, limit) ==
    selectByTopic(tbl, topic, IF limit = None THEN LIST_BY_TOPIC_DEFAULT ELSE limit[1])

\* listAll(limit = 100)
listAll(tbl, limit) ==
    selectAll(tbl, IF limit = None THEN LIST_ALL_DEFAULT ELSE limit[1])

---------------------------------------------------------------------------
(* The search cache.                                                       *)

CacheIds(cache) == {cache[i].id : i \in 1..Len(cache)}

\* mutant of CacheGet: a result once issued is found whether or not the
\* cache still holds it
CacheGet_remembered(cache, id) ==
    LET hit == SelectSeq(cache, LAMBDA e : e.id = id)
    IN  IF hit # <<>> THEN Some(hit[1])
        ELSE IF id \in DOMAIN issued
        THEN Some([id |-> id,
                   query |-> issued[id].query,
                   answerText |-> issued[id].answerText,
                   sources |-> issued[id].sources,
                   createdAt |-> issued[id].createdAt])
        ELSE None

\* Map.get
CacheGet(cache, id) ==
    LET hit == SelectSeq(cache, LAMBDA e : e.id = id)
    IN  IF hit = <<>> THEN None ELSE Some(hit[1])

\* mutant of CacheSet: a new key goes first in insertion order
CacheSet_prepend(cache, id, value) ==
    LET entry == [id |-> id,
                  query |-> value.query,
                  answerText |-> value.answerText,
                  sources |-> value.sources,
                  createdAt |-> value.createdAt]
    IN  IF id \in CacheIds(cache)
        THEN [i \in 1..Len(cache) |-> IF cache[i].id = id THEN entry ELSE cache[i]]
        ELSE <<entry>> \o cache

\* Map.set: a new key goes last in insertion order, an old key keeps its place
CacheSet(cache, id, value) ==
    LET entry == [id |-> id,
                  query |-> value.query,
                  answerText |-> value.answerText,
                  sources |-> value.sources,
                  createdAt |-> value.createdAt]
    IN  IF id \in CacheIds(cache)
        THEN [i \in 1..Len(cache) |-> IF cache[i].id = id THEN entry ELSE cache[i]]
        ELSE Append(cache, entry)

\* Map.delete of a set of keys
CacheDeleteAll(cache, ids) == SelectSeq(cache, LAMBDA e : e.id \notin ids)

\* mutant of Expired: >= in place of >
Expired_orEqual(e, t) == t - e.createdAt >= SEARCH_CACHE_TTL_MS

\* the age test of cleanupSearchCache's first loop
Expired(e, t) == t - e.createdAt > SEARCH_CACHE_TTL_MS

\* mutant of OldestEntry: of the oldest entries the latest inserted is taken
OldestEntry_lastOfTies(cache) ==
    LET stamps == {cache[i].createdAt : i \in 1..Len(cache)}
        oldest == CHOOSE m \in stamps : \A x \in stamps : m <= x
        ties == SelectSeq(cache, LAMBDA e : e.createdAt = oldest)
    IN  ties[Len(ties)]

\* Array.prototype.sort((a, b) => a.createdAt - b.createdAt) is stable: the
\* first of the sorted entries is the earliest inserted of the oldest ones
OldestEntry(cache) ==
    LET stamps == {cache[i].createdAt : i \in 1..Len(cache)}
        oldest == CHOOSE m \in stamps : \A x \in stamps : m <= x
    IN  SelectSeq(cache, LAMBDA e : e.createdAt = oldest)[1]

\* the ids of entries.slice(0, k) of the sorted entries
RECURSIVE OldestIds(_, _)
OldestIds(cache, k) ==
    IF k <= 0 \/ cache = <<>>
    THEN {}
    ELSE {OldestEntry(cache).id}
         \cup OldestIds(CacheDeleteAll(cache, {OldestEntry(cache).id}), k - 1)

\* mutant of cleanupSearchCache: the size pass removes one entry too few
cleanupSearchCache_offByOne(cache, t) ==
    LET fresh == SelectSeq(cache, LAMBDA e : ~Expired(e, t))
    IN  IF Len(fresh) <= SEARCH_CACHE_MAX_ITEMS
        THEN fresh
        ELSE CacheDeleteAll(fresh,
                 OldestIds(fresh, Len(fresh) - SEARCH_CACHE_MAX_ITEMS - 1))

cleanupSearchCache(cache, t) ==
    LET fresh == SelectSeq(cache, LAMBDA e : ~Expired(e, t))
    IN  IF Len(fresh) <= SEARCH_CACHE_MAX_ITEMS
        THEN fresh
        ELSE CacheDeleteAll(fresh, OldestIds(fresh, Len(fresh) - SEARCH_CACHE_MAX_ITEMS))

---------------------------------------------------------------------------
(* Deriving rows from a cached result.                                     *)

\* mutant of toSummary: the text is not cut
toSummary_uncut(source, fallback) ==
    LET snippet == OptTrim(source.snippet)
    IN  IF Truthy(snippet) THEN snippet[1]
        ELSE IF Trim(fallback) # <<>> THEN Trim(fallback)
        ELSE NoSummary

toSummary(source, fallback) ==
    LET snippet == OptTrim(source.snippet)
        raw == IF Truthy(snippet) THEN snippet[1]
               ELSE IF Trim(fallback) # <<>> THEN Trim(fallback)
               ELSE NoSummary
    IN  Slice0(raw, SUMMARY_MAX_CHARS)

\* mutant of RowsOfSource: the url is stored as received, not trimmed
RowsOfSource_rawUrl(topic, answerText, source) ==
    LET t == OptTrim(source.title)
        title == IF Truthy(t) THEN t[1] ELSE Untitled
        url == OptTrim(source.url)
    IN  IF ~Truthy(url)
        THEN <<>>
        ELSE <<[topic |-> topic,
                source |-> sourceFromUrl(url[1]),
                title |-> title,
                url |-> source.url[1],
                summary |-> toSummary(source, answerText)]>>

\* the loop body of saveNewsRows: the rows one source contributes (none or one)
RowsOfSource(topic, answerText, source) ==
    LET t == OptTrim(source.title)
        title == IF Truthy(t) THEN t[1] ELSE Untitled
        url == OptTrim(source.url)
    IN  IF ~Truthy(url)
        THEN <<>>
        ELSE <<[topic |-> topic,
                source |-> sourceFromUrl(url[1]),
                title |-> title,
                url |-> url[1],
                summary |-> toSummary(source, answerText)]>>

RECURSIVE RowsOfSources(_, _, _)
RowsOfSources(topic, answerText, sources) ==
    IF sources = <<>>
    THEN <<>>
    ELSE RowsOfSource(topic, answerText, Head(sources))
         \o RowsOfSources(topic, answerText, Tail(sources))

\* mutant of rowsToSave: every source is considered, not the first five
rowsToSave_uncapped(topic, answerText, sources) ==
    RowsOfSources(topic, answerText, sources)

\* rowsToSave of saveNewsRows
rowsToSave(topic, answerText, sources) ==
    RowsOfSources(topic, answerText, Slice0(sources, SAVE_MAX_SOURCES))

saveNewsRows(tbl, topic, answerText, sources, t) ==
    saveMany(tbl, rowsToSave(topic, answerText, sources), t)


---------------------------------------------------------------------------
(* What the outside world supplies: queries, the search capability's       *)
(* answers and sources, the save_to_db arguments.                          *)

Queries == {<<SP, "q">>}
Answers == {<<"a", SP>>}

SrcGood == [title |-> Some(<<SP, "t">>), url |-> Some(<<SP, "s", ":", "/", "/", "h", SP>>),
            date |-> None, snippet |-> Some(<<"n">>)]
SrcNoUrl == [title |-> Some(<<"t">>), url |-> None, date |-> None, snippet |-> None]
SrcBlankUrl == [title |-> None, url |-> Some(<<SP>>), date |-> None, snippet |-> None]
SrcBadUrl == [title |-> None, url |-> Some(<<"h">>), date |-> None, snippet |-> Some(<<SP>>)]

SourceLists == {<<>>, <<SrcBlankUrl, SrcGood>>, <<SrcBadUrl, SrcNoUrl>>}

Topics == {None, Some(<<SP>>), Some(<<"k", SP>>)}

\* The warm cache: the server after WarmCount successful searches at BootTime,
\* each of which returned no sources.  Their result_ids are 1..WarmCount.
WarmCount == SEARCH_CACHE_MAX_ITEMS - 1
WarmValue == [query |-> <<"w">>, answerText |-> <<"w">>, sources |-> <<>>,
              createdAt |-> BootTime]
WarmCache ==
    [i \in 1..WarmCount |-> [id |-> i,
                             query |-> WarmValue.query,
                             answerText |-> WarmValue.answerText,
                             sources |-> WarmValue.sources,
                             createdAt |-> WarmValue.createdAt]]

\* every result_id issued so far, and what was stored under it
IssuedIds == (IF warm THEN 1..WarmCount ELSE {}) \cup DOMAIN issued
ResultOfIn(iss, h) == IF h \in DOMAIN iss THEN iss[h] ELSE WarmValue
ResultOf(h) == ResultOfIn(issued, h)

\* mutant of FreshId: the latest handle is given out again
FreshId_recycled ==
    IF DOMAIN issued = {} THEN WarmCount + 1
    ELSE WarmCount + Cardinality(DOMAIN issued)

\* randomUUID(): a token never issued before
FreshId == WarmCount + Cardinality(DOMAIN issued) + 1

\* result_ids a client may send: one never issued, the oldest, the recent ones
ResultIdChoices == {0, 1} \cup DOMAIN issued

ClockSteps == {1, SEARCH_CACHE_TTL_MS}

---------------------------------------------------------------------------
(* The tool handlers of the MCP server.  Each handler runs from its last   *)
(* await to its return without interleaving, and reads the clock once.     *)

OpRecord(op, text, thrown, handle, ids) ==
    [op |-> op, text |-> text, thrown |-> thrown, handle |-> handle, ids |-> ids]

\* mutant of search_web: the result is written to the repository at once
search_web_autosave(query, answerText, sources) ==
    LET resultId == FreshId
        value == [query |-> query, answerText |-> answerText,
                  sources |-> sources, createdAt |-> now]
        saved == saveNewsRows(rows, query, answerText, sources, now)
    IN  /\ searchCache' = cleanupSearchCache(CacheSet(searchCache, resultId, value), now)
        /\ issued' = [h \in DOMAIN issued \cup {resultId} |->
                        IF h = resultId THEN value ELSE issued[h]]
        /\ rows' = saved.table
        /\ rowOrigin' = rowOrigin \o [i \in 1..Len(saved.ids) |-> resultId]
        /\ lastOp' = OpRecord("search_web", "result", FALSE, resultId, <<>>)
        /\ ops' = ops + 1
        /\ UNCHANGED <<now, warm>>

\* search_web, when fetchLatestWebData returned answerText and sources
search_web(query, answerText, sources) ==
    LET resultId == FreshId
        value == [query |-> query, answerText |-> answerText,
                  sources |-> sources, createdAt |-> now]
    IN  /\ searchCache' = cleanupSearchCache(CacheSet(searchCache, resultId, value), now)
        /\ issued' = [h \in DOMAIN issued \cup {resultId} |->
                        IF h = resultId THEN value ELSE issued[h]]
        /\ lastOp' = OpRecord("search_web", "result", FALSE, resultId, <<>>)
        /\ ops' = ops + 1
        /\ UNCHANGED <<rows, rowOrigin, now, warm>>

\* search_web, when fetchLatestWebData threw (status not ok, or no API key)
search_web_failed(query) ==
    /\ lastOp' = OpRecord("search_web", "error", TRUE, 0, <<>>)
    /\ ops' = ops + 1
    /\ UNCHANGED <<searchCache, issued, rows, rowOrigin, now, warm>>

\* the statuses the search service may answer with
Statuses == {200, 404, 500}

\* Response.ok
RespOk(status) == status \in 200..299

\* mutant of search_web_call: a failed request counts as an empty result
search_web_call_silent(query, status, answerText, sources) ==
    IF RespOk(status)
    THEN search_web(query, answerText, sources)
    ELSE search_web(query, <<>>, <<>>)

\* the search_web handler over fetchLatestWebData: the response's status
\* decides whether the body is read or an error is thrown
search_web_call(query, status, answerText, sources) ==
    IF RespOk(status)
    THEN search_web(query, answerText, sources)
    ELSE search_web_failed(query)

\* mutant of save_to_db: the lookup is not preceded by cleanupSearchCache
save_to_db_noCleanup(result_id, topic) ==
    LET cached == CacheGet(searchCache, result_id)
    IN  /\ searchCache' = searchCache
        /\ IF cached = None
           THEN /\ lastOp' = OpRecord("save_to_db", "no_cached_search", FALSE,
                                      result_id, <<>>)
                /\ UNCHANGED <<rows, rowOrigin>>
           ELSE LET sqlTopic == IF Truthy(OptTrim(topic))
                                THEN Trim(topic[1])
                                ELSE cached[1].query
                    saved == saveNewsRows(rows, sqlTopic, cached[1].answerText,
                                          cached[1].sources, now)
                IN  /\ rows' = saved.table
                    /\ rowOrigin' = rowOrigin \o [i \in 1..Len(saved.ids) |-> result_id]
                    /\ lastOp' = OpRecord("save_to_db", "saved", FALSE,
                                          result_id, saved.ids)
        /\ ops' = ops + 1
        /\ UNCHANGED <<issued, now, warm>>

\* mutant of save_to_db: a saved result is taken out of the cache
save_to_db_consumes(result_id, topic) ==
    LET cleaned == cleanupSearchCache(searchCache, now)
        cached == CacheGet(cleaned, result_id)
    IN  /\ IF cached = None
           THEN /\ lastOp' = OpRecord("save_to_db", "no_cached_search", FALSE,
                                      result_id, <<>>)
                /\ searchCache' = cleaned
                /\ UNCHANGED <<rows, rowOrigin>>
           ELSE LET sqlTopic == IF Truthy(OptTrim(topic))
                                THEN Trim(topic[1])
                                ELSE cached[1].query
                    saved == saveNewsRows(rows, sqlTopic, cached[1].answerText,
                                          cached[1].sources, now)
                IN  /\ rows' = saved.table
                    /\ searchCache' = SelectSeq(cleaned, LAMBDA e : e.id # result_id)
                    /\ rowOrigin' = rowOrigin \o [i \in 1..Len(saved.ids) |-> result_id]
                    /\ lastOp' = OpRecord("save_to_db", "saved", FALSE,
                                          result_id, saved.ids)
        /\ ops' = ops + 1
        /\ UNCHANGED <<issued, now, warm>>

save_to_db(result_id, topic) ==
    LET cleaned == cleanupSearchCache(searchCache, now)
        cached == CacheGet(cleaned, result_id)
    IN  /\ searchCache' = cleaned
        /\ IF cached = None
           THEN /\ lastOp' = OpRecord("save_to_db", "no_cached_search", FALSE,
                                      result_id, <<>>)
                /\ UNCHANGED <<rows, rowOrigin>>
           ELSE LET sqlTopic == IF Truthy(OptTrim(topic))
                                THEN Trim(topic[1])
                                ELSE cached[1].query
                    saved == saveNewsRows(rows, sqlTopic, cached[1].answerText,
                                          cached[1].sources, now)
                IN  /\ rows' = saved.table
                    /\ rowOrigin' = rowOrigin \o [i \in 1..Len(saved.ids) |-> result_id]
                    /\ lastOp' = OpRecord("save_to_db", "saved", FALSE,
                                          result_id, saved.ids)
        /\ ops' = ops + 1
        /\ UNCHANGED <<issued, now, warm>>

\* Date.now() is the wall clock: it moves forward, and an adjustment may set it back
ClockAdvance(d) ==
    /\ now' = now + d
    /\ ops' = ops + 1
    /\ lastOp' = OpRecord("clock", "", FALSE, 0, <<>>)
    /\ UNCHANGED <<searchCache, rows, rowOrigin, issued, warm>>

ClockStepBack(d) ==
    /\ now >= d
    /\ now' = now - d
    /\ ops' = ops + 1
    /\ lastOp' = OpRecord("clock", "", FALSE, 0, <<>>)
    /\ UNCHANGED <<searchCache, rows, rowOrigin, issued, warm>>

---------------------------------------------------------------------------
(* The server as a state machine.                                          *)

ServerInit ==
    /\ warm \in BOOLEAN
    /\ searchCache = IF warm THEN WarmCache ELSE <<>>
    /\ rows = <<>>
    /\ rowOrigin = <<>>
    /\ now = BootTime
    /\ issued = <<>>
    /\ ops = 0
    /\ lastOp = OpRecord("none", "", FALSE, 0, <<>>)

OpsLeft == ops < MaxOps

SearchStep ==
    /\ OpsLeft
    /\ \E q \in Queries, st \in {x \in Statuses : RespOk(x)},
          a \in Answers, s \in SourceLists : search_web_call(q, st, a, s)

SearchFailStep ==
    /\ OpsLeft
    /\ \E q \in Queries, st \in {x \in Statuses : ~RespOk(x)},
          a \in Answers, s \in SourceLists : search_web_call(q, st, a, s)

SaveStep == OpsLeft /\ \E id \in ResultIdChoices, t \in Topics : save_to_db(id, t)

ClockForwardStep == OpsLeft /\ \E d \in ClockSteps : ClockAdvance(d)

ClockBackStep == OpsLeft /\ ClockStepBack(1)

---------------------------------------------------------------------------
(* The repository on its own: what a caller of saveMany, listByTopic,      *)
(* listAll and getById sees.  reply records the latest call.               *)

ReplyRecord(op, topic, limit, id, given, thrown, queries, out, ids) ==
    [op |-> op, topic |-> topic, limit |-> limit, id |-> id, given |-> given,
     thrown |-> thrown, queries |-> queries, out |-> out, ids |-> ids]

NoReply == ReplyRecord("none", <<>>, 0, 0, <<>>, FALSE, 0, <<>>, <<>>)

\* TopicNewsInsert values a caller may pass
RepoTopics == {<<"k">>, <<"q">>}
InsertRows ==
    {[topic |-> t, source |-> <<"h">>, title |-> <<"t">>, url |-> <<"u">>,
      summary |-> <<"s">>] : t \in RepoTopics}
Batches == UNION {[1..n -> InsertRows] : n \in 0..MaxBatch}

\* limits a caller may pass: none (the default applies), negative, zero, one
RepoLimits == {None} \cup {Some(n) : n \in -1..1}

\* ids a caller may ask for
RepoIds == 0..(MaxStored + 1)

\* created_at has the resolution of a second
RepoClockSteps == {1000}

RepoSaveMany(rs) ==
    LET saved == saveMany(rows, rs, now)
    IN  /\ rows' = saved.table
        /\ reply' = ReplyRecord("saveMany", <<>>, 0, 0, rs, FALSE, 0, <<>>, saved.ids)
        /\ lastOp' = OpRecord("saveMany", "", FALSE, 0, saved.ids)
        /\ ops' = ops + 1
        /\ UNCHANGED <<searchCache, issued, rowOrigin, now, warm>>

\* a saveMany call in which the insert of row k fails
RepoSaveManyFailing(rs, k) ==
    LET saved == saveManyThrowing(rows, rs, now, k)
    IN  /\ k \in 1..Len(rs)
        /\ rows' = saved.table
        /\ reply' = ReplyRecord("saveMany", <<>>, 0, 0, rs, saved.thrown, 0, <<>>,
                                saved.ids)
        /\ lastOp' = OpRecord("saveMany", "error", saved.thrown, 0, saved.ids)
        /\ ops' = ops + 1
        /\ UNCHANGED <<searchCache, issued, rowOrigin, now, warm>>

RepoListByTopic(topic, limit) ==
    /\ \E out \in listByTopic(rows, topic, limit) :
          reply' = ReplyRecord("listByTopic", topic,
                               IF limit = None THEN LIST_BY_TOPIC_DEFAULT ELSE limit[1],
                               0, <<>>, FALSE, 1, out, <<>>)
    /\ UNCHANGED serverVars

RepoListAll(limit) ==
    /\ \E out \in listAll(rows, limit) :
          reply' = ReplyRecord("listAll", <<>>,
                               IF limit = None THEN LIST_ALL_DEFAULT ELSE limit[1],
                               0, <<>>, FALSE, 1, out, <<>>)
    /\ UNCHANGED serverVars

RepoGetById(id) ==
    /\ reply' = ReplyRecord("getById", <<>>, 0, id, <<>>, FALSE, 1,
                            getById(rows, id), <<>>)
    /\ UNCHANGED serverVars

RepoOpsLeft == ops < MaxRepoOps

RepoSaveStep ==
    /\ RepoOpsLeft
    /\ \E rs \in Batches : Len(rows) + Len(rs) <= MaxStored /\ RepoSaveMany(rs)

RepoSaveFailStep ==
    /\ RepoOpsLeft
    /\ \E rs \in Batches, k \in 1..MaxBatch :
          Len(rows) + Len(rs) <= MaxStored /\ RepoSaveManyFailing(rs, k)

RepoListByTopicStep == \E t \in RepoTopics, l \in RepoLimits : RepoListByTopic(t, l)

RepoListAllStep == \E l \in RepoLimits : RepoListAll(l)

RepoGetByIdStep == \E id \in RepoIds : RepoGetById(id)

RepoClockForwardStep ==
    RepoOpsLeft /\ \E d \in RepoClockSteps : ClockAdvance(d) /\ reply' = reply

RepoClockBackStep ==
    RepoOpsLeft /\ \E d \in RepoClockSteps : ClockStepBack(d) /\ reply' = reply

---------------------------------------------------------------------------
(* The tools that read the repository (get_from_db, get_all_from_db,       *)
(* get_by_id), and the inputs they are explored with.  A JSON number is    *)
(* modelled by twice its value, so that 1.5 is the number 3; a handler     *)
(* runs only when its arguments pass the tool's inputSchema.               *)

IsInteger(h) == h % 2 = 0
NumberValue(h) == h \div 2

\* z.number().int().min(1).max(max).optional().default(dflt): the parsed
\* value, or nothing when the argument is rejected
ParseLimit(arg, max, dflt) ==
    IF arg = None THEN Some(dflt)
    ELSE IF IsInteger(arg[1]) /\ NumberValue(arg[1]) >= 1 /\ NumberValue(arg[1]) <= max
         THEN Some(NumberValue(arg[1]))
         ELSE None

\* z.number().int().positive()
ParseId(arg) ==
    IF IsInteger(arg) /\ NumberValue(arg) > 0 THEN Some(NumberValue(arg)) ELSE None

\* the request is answered with an error; the handler is not called
Rejected(op, topic, arg) ==
    /\ reply' = ReplyRecord(op, topic, 0, 0, arg, TRUE, 0, <<>>, <<>>)
    /\ UNCHANGED serverVars

\* mutant of get_from_db: the limit is passed on as received
get_from_db_unchecked(topic, limit) ==
    /\ \E out \in listByTopic(rows, topic,
                               IF limit = None THEN None ELSE Some(NumberValue(limit[1]))) :
          reply' = ReplyRecord("get_from_db", topic,
                               IF limit = None THEN 0 ELSE NumberValue(limit[1]),
                               0, limit, FALSE, 1, out, <<>>)
    /\ UNCHANGED serverVars

get_from_db(topic, limit) ==
    LET parsed == ParseLimit(limit, GET_FROM_DB_MAX_LIMIT, GET_FROM_DB_DEFAULT_LIMIT)
    IN  IF parsed = None
        THEN Rejected("get_from_db", topic, limit)
        ELSE /\ \E out \in listByTopic(rows, topic, parsed) :
                   reply' = ReplyRecord("get_from_db", topic, parsed[1], 0, limit,
                                        FALSE, 1, out, <<>>)
             /\ UNCHANGED serverVars

get_all_from_db(limit) ==
    LET parsed == ParseLimit(limit, GET_ALL_FROM_DB_MAX_LIMIT,
                             GET_ALL_FROM_DB_DEFAULT_LIMIT)
    IN  IF parsed = None
        THEN Rejected("get_all_from_db", <<>>, limit)
        ELSE /\ \E out \in listAll(rows, parsed) :
                   reply' = ReplyRecord("get_all_from_db", <<>>, parsed[1], 0, limit,
                                        FALSE, 1, out, <<>>)
             /\ UNCHANGED serverVars

get_by_id(id) ==
    LET parsed == ParseId(id)
    IN  IF parsed = None
        THEN Rejected("get_by_id", <<>>, Some(id))
        ELSE /\ reply' = ReplyRecord("get_by_id", <<>>, 0, parsed[1], Some(id),
                                     FALSE, 1, getById(rows, parsed[1]), <<>>)
             /\ UNCHANGED serverVars

\* a snippet longer than the summary may be
LongText == [i \in 1..(SUMMARY_MAX_CHARS + 1) |-> "x"]

SrcLong == [title |-> None, url |-> Some(<<"s", ":", "/", "/", "w", "/", "p">>),
            date |-> None, snippet |-> Some(LongText)]

RichAnswers == {<<"a", SP>>, <<SP>>}
RichSourceLists ==
    {<<SrcGood, SrcLong>>,
     <<SrcBadUrl, SrcNoUrl, SrcBlankUrl>>,
     <<SrcGood, SrcBadUrl, SrcGood, SrcBadUrl, SrcGood, SrcGood>>}

\* topics as stored by save_to_db, and one that is never stored
ReadTopics == {<<"k">>, <<SP, "q">>, <<"z">>}

\* limit arguments of get_from_db: absent, 0, 0.5, 1, 50, 51
FromDbLimitArgs == {None} \cup {Some(h) : h \in {0, 1, 2, 100, 102}}

\* limit arguments of get_all_from_db: absent, 0, 1, 500, 501
AllLimitArgs == {None} \cup {Some(h) : h \in {0, 2, 1000, 1002}}

\* id arguments: -1, 0, 1, 1.5, 2, 3
IdArgs == {-2, 0, 2, 3, 4, 6}

ToolOpsLeft == ops < MaxToolOps

ToolSearchStep ==
    /\ ToolOpsLeft
    /\ \E q \in Queries, a \in Answers, s \in SourceLists : search_web(q, a, s)

RichSearchStep ==
    /\ ToolOpsLeft
    /\ \E q \in Queries, a \in RichAnswers, s \in RichSourceLists : search_web(q, a, s)

ToolSaveStep ==
    ToolOpsLeft /\ \E id \in ResultIdChoices, t \in Topics : save_to_db(id, t)

GetFromDbStep == \E t \in ReadTopics, l \in FromDbLimitArgs : get_from_db(t, l)

GetAllFromDbStep == \E l \in AllLimitArgs : get_all_from_db(l)

GetByIdStep == \E id \in IdArgs : get_by_id(id)

---------------------------------------------------------------------------
(* The agent's dispatch loop (createAgentRuntime, runTurn): a graph of a   *)
(* model node and a tools node over the messages of one thread.  A        *)
(* thread's newest messages are represented, as many as window says:       *)
(* WindowLen of them where a session may go on for ever (the nodes and the *)
(* conditional edge read no further back), all of them in a session of at  *)
(* most SessionLen messages.  The tool handlers a tool call reaches are    *)
(* the server's, explored by Spec.                                         *)

Threads == {"s1", "s2"}
ToolNames == {"search_web", "save_to_db"}

WindowLen == MaxCalls + 1

\* the messages of the longest session that is represented whole
SessionLen == 8

Message(role, calls, name, call) ==
    [role |-> role, tool_calls |-> calls, name |-> name, call |-> call]

HumanMessage == Message("human", <<>>, "", 0)
AIMessage(calls) == Message("ai", calls, "", 0)
ToolMessage(name, call) == Message("tool", <<>>, name, call)

\* the standing policy, a fixed text
TOOL_POLICY == "TOOL_POLICY"
SystemMessage(content) == Message("system", <<>>, content, 0)

\* what the inference capability may answer: any list of tool calls, or none
CallLists == UNION {[1..n -> ToolNames] : n \in 0..MaxCalls}
Responses == {AIMessage(c) : c \in CallLists}

Last(msgs) == msgs[Len(msgs)]

KeepWindow(msgs) ==
    IF Len(msgs) <= window
    THEN msgs
    ELSE SubSeq(msgs, Len(msgs) - window + 1, Len(msgs))

\* the messages channel of AgentState: an update is appended
messagesReducer(left, right) == KeepWindow(left \o right)

Count(n) == Min(n + 1, VisitCap)

\* mutant of ModelInput: the state's messages are passed as they are
ModelInput_noPolicy(msgs) == msgs

\* model.invoke([new SystemMessage(TOOL_POLICY), ...state.messages])
ModelInput(msgs) == <<SystemMessage(TOOL_POLICY)>> \o msgs

\* the model node returns { messages: [response] }
modelNode(msgs, response) == <<response>>

\* mutant of toolsCondition: the tools node is always next
toolsCondition_always(msgs) == "tools"

\* the conditional edge after the model node
toolsCondition(msgs) ==
    IF Last(msgs).role = "ai" /\ Len(Last(msgs).tool_calls) > 0
    THEN "tools"
    ELSE "END"

\* mutant of ToolNode: only the first tool call is run
ToolNode_firstOnly(msgs) ==
    IF Len(Last(msgs).tool_calls) = 0
    THEN <<>>
    ELSE <<ToolMessage(Last(msgs).tool_calls[1], 1)>>

\* the tools node runs every tool call of the last message and returns one
\* tool message for each, in the order of the calls, whether the tool
\* returned or threw
ToolNode(msgs) ==
    [i \in 1..Len(Last(msgs).tool_calls) |->
        ToolMessage(Last(msgs).tool_calls[i], i)]

\* mutant of StartTurn: every turn starts from the new message alone
StartTurn_singleShot(thread) ==
    /\ node \in {"idle", "END"}
    /\ checkpoint' = [checkpoint EXCEPT ![thread] = <<HumanMessage>>]
    /\ running' = thread
    /\ node' = "model"
    /\ modelVisits' = 0
    /\ toolVisits' = 0
    /\ toolResponses' = 0
    /\ prompt' = <<>>
    /\ UNCHANGED window

\* graph.stream({ messages: [new HumanMessage(text)] }, { thread_id }):
\* the input is added to the thread's messages and START leads to model
StartTurn(thread) ==
    /\ node \in {"idle", "END"}
    /\ checkpoint' = [checkpoint EXCEPT
                        ![thread] = messagesReducer(@, <<HumanMessage>>)]
    /\ running' = thread
    /\ node' = "model"
    /\ modelVisits' = 0
    /\ toolVisits' = 0
    /\ toolResponses' = 0
    /\ prompt' = <<>>
    /\ UNCHANGED window

\* the model node, then the conditional edge
CallModel(response) ==
    /\ node = "model"
    /\ LET msgs == messagesReducer(checkpoint[running],
                                   modelNode(checkpoint[running], response))
       IN  /\ checkpoint' = [checkpoint EXCEPT ![running] = msgs]
           /\ node' = toolsCondition(msgs)
    /\ prompt' = ModelInput(checkpoint[running])
    /\ modelVisits' = Count(modelVisits)
    /\ toolResponses' = IF Len(response.tool_calls) > 0
                        THEN Count(toolResponses)
                        ELSE toolResponses
    /\ UNCHANGED <<running, toolVisits, window>>

\* the tools node, then the edge back to model
RunTools ==
    /\ node = "tools"
    /\ checkpoint' = [checkpoint EXCEPT
                        ![running] = messagesReducer(@, ToolNode(@))]
    /\ node' = "model"
    /\ toolVisits' = Count(toolVisits)
    /\ prompt' = <<>>
    /\ UNCHANGED <<running, modelVisits, toolResponses, window>>

\* nothing has run; the threads' conversations are empty
LoopAt(w) ==
    /\ node = "idle"
    /\ running = "s1"
    /\ checkpoint = [t \in Threads |-> <<>>]
    /\ modelVisits = 0
    /\ toolVisits = 0
    /\ toolResponses = 0
    /\ prompt = <<>>
    /\ window = w

LoopInitial == LoopAt(WindowLen)

\* no step can take a thread beyond the messages that are represented
SessionRoom == \A t \in Threads : Len(checkpoint[t]) + MaxCalls <= window

ModelStep == \E r \in Responses : CallModel(r)

ToolsStep == RunTools

TurnStep == \E t \in Threads : StartTurn(t)

---------------------------------------------------------------------------
(* The client's streaming of one turn: apps/cli/src/main.ts runTurn.       *)

\* the chunks of one turn that are modelled
MaxChunks == 3

NEWLINE == "\n"

NoTextNotice ==
    <<"(", "n", "o", " ", "a", "s", "s", "i", "s", "t", "a", "n", "t", " ",
      "t", "e", "x", "t", " ", "r", "e", "t", "u", "r", "n", "e", "d", ")",
      NEWLINE>>

\* content blocks: an object with a string text, an object without a text
\* (a tool call), an object whose text is not a string, and null
TextBlock(t) == [kind |-> "text", text |-> t]
OtherBlock == [kind |-> "tool_use", text |-> <<>>]
OddBlock == [kind |-> "textNotString", text |-> <<>>]
NullBlock == [kind |-> "null", text |-> <<>>]

\* a message content: a string, an array of blocks, or anything else
StringContent(t) == [kind |-> "string", text |-> t, blocks |-> <<>>]
ArrayContent(bs) == [kind |-> "array", text |-> <<>>, blocks |-> bs]
OtherContent == [kind |-> "undefined", text |-> <<>>, blocks |-> <<>>]

\* the loop of extractChunkText over the blocks
RECURSIVE BlocksText(_)
BlocksText(bs) ==
    IF bs = <<>> THEN <<>>
    ELSE (IF Head(bs).kind = "text" THEN Head(bs).text ELSE <<>>)
             \o BlocksText(Tail(bs))

extractChunkText(content) ==
    IF content.kind = "string" THEN content.text
    ELSE IF content.kind # "array" THEN <<>>
    ELSE BlocksText(content.blocks)

\* a chunk of the stream: [messageChunk, metadata], or not an array
Chunk(isArray, langgraph_node, content) ==
    [isArray |-> isArray, langgraph_node |-> langgraph_node,
     content |-> content]

Contents ==
    {StringContent(<<>>), StringContent(<<"a">>), StringContent(<<"b">>),
     ArrayContent(<<TextBlock(<<"a">>), OtherBlock, TextBlock(<<"b">>)>>),
     ArrayContent(<<NullBlock, OddBlock>>),
     OtherContent}

ChunkNodes == {"model", "tools", "undefined"}

Chunks ==
    {Chunk(TRUE, n, c) : n \in ChunkNodes, c \in Contents}
        \cup {Chunk(FALSE, "undefined", OtherContent)}

\* graph.stream(...) returns and runTurn sets streamed = ""
StreamStart ==
    /\ ~streaming
    /\ streaming' = TRUE
    /\ chunks' = <<>>
    /\ stdout' = <<>>
    /\ streamed' = <<>>

\* mutant of StreamChunk: the chunk's node is not looked at
StreamChunk_anyNode(chunk) ==
    /\ streaming
    /\ Len(chunks) < MaxChunks
    /\ chunks' = Append(chunks, chunk)
    /\ LET tokenText == extractChunkText(chunk.content)
       IN  IF ~chunk.isArray \/ tokenText = <<>>
           THEN UNCHANGED <<stdout, streamed>>
           ELSE /\ stdout' = Append(stdout, tokenText)
                /\ streamed' = streamed \o tokenText
    /\ UNCHANGED streaming

\* one pass of the for-await loop
StreamChunk(chunk) ==
    /\ streaming
    /\ Len(chunks) < MaxChunks
    /\ chunks' = Append(chunks, chunk)
    /\ LET tokenText == extractChunkText(chunk.content)
       IN  IF \/ ~chunk.isArray
              \/ chunk.langgraph_node # "model"
              \/ tokenText = <<>>
           THEN UNCHANGED <<stdout, streamed>>
           ELSE /\ stdout' = Append(stdout, tokenText)
                /\ streamed' = streamed \o tokenText
    /\ UNCHANGED streaming

\* the stream ends and the last write is made
StreamEnd ==
    /\ streaming
    /\ streaming' = FALSE
    /\ stdout' = Append(stdout, IF streamed # <<>> THEN <<NEWLINE>>
                                                  ELSE NoTextNotice)
    /\ UNCHANGED <<chunks, streamed>>

StreamInitial ==
    /\ streaming = FALSE
    /\ chunks = <<>>
    /\ stdout = <<>>
    /\ streamed = <<>>

StreamChunkStep == \E c \in Chunks : StreamChunk(c)

---------------------------------------------------------------------------
(* Start-up of the two processes and their configuration.                  *)

REQUIRED_DB_TOOLS ==
    {"search_web", "save_to_db", "get_from_db", "get_all_from_db", "get_by_id"}

Credentials == {"OPENAI_API_KEY", "PERPLEXITY_API_KEY"}

\* requireEnv(name) returns; it throws when the variable has no value
HasEnv(name) == name \in env

Failure(at, what) == [at |-> at, what |-> what]
NoFailure == Failure("none", "")

\* the first detection is the one that is kept
Detect(at, what) == IF failure = NoFailure THEN Failure(at, what) ELSE failure

\* the server module runs to app.listen; it reads no credential on the way
ServerListen ==
    /\ server = "down"
    /\ server' = "listening"
    /\ UNCHANGED <<env, offered, agent, failure>>

\* createAgentRuntime up to the check of the required tools
AgentStart ==
    /\ agent = "down"
    /\ IF ~HasEnv("OPENAI_API_KEY")
       THEN /\ agent' = "failed"
            /\ failure' = Detect("startup", "OPENAI_API_KEY")
       ELSE IF server # "listening"
       THEN /\ agent' = "failed"
            /\ failure' = Detect("startup", "endpoint")
       ELSE IF ~(REQUIRED_DB_TOOLS \subseteq offered)
       THEN /\ agent' = "failed"
            /\ failure' = Detect("startup", "tools")
       ELSE /\ agent' = "ready"
            /\ failure' = failure
    /\ UNCHANGED <<env, offered, server>>

\* a search_web call of a session: fetchLatestWebData begins with
\* requireEnv("PERPLEXITY_API_KEY"), which throws inside the handler
SessionSearch(query, status, answerText, sources) ==
    /\ agent = "ready"
    /\ IF ~HasEnv("PERPLEXITY_API_KEY")
       THEN /\ search_web_failed(query)
            /\ failure' = Detect("tool_call", "PERPLEXITY_API_KEY")
       ELSE /\ search_web_call(query, status, answerText, sources)
            /\ failure' = failure
    /\ UNCHANGED <<env, offered, server, agent>>

\* a save_to_db call of a session
SessionSave(result_id, topic) ==
    /\ agent = "ready"
    /\ save_to_db(result_id, topic)
    /\ UNCHANGED configVars

\* both processes run, fully configured
Configured ==
    /\ env = Credentials
    /\ offered = REQUIRED_DB_TOOLS
    /\ server = "listening"
    /\ agent = "ready"
    /\ failure = NoFailure

\* nothing is started; any credential may be missing, and the endpoint may
\* be a server that lacks a required tool
Unstarted ==
    /\ env \in SUBSET Credentials
    /\ offered \in {REQUIRED_DB_TOOLS, REQUIRED_DB_TOOLS \ {"get_by_id"}}
    /\ server = "down"
    /\ agent = "down"
    /\ failure = NoFailure

SessionSearchStep ==
    /\ ToolOpsLeft
    /\ \E q \in Queries, st \in Statuses, a \in Answers, s \in SourceLists :
          SessionSearch(q, st, a, s)

SessionSaveStep ==
    ToolOpsLeft /\ \E id \in ResultIdChoices, t \in Topics : SessionSave(id, t)

---------------------------------------------------------------------------
(* Requests of several sessions on the one server process.  A handler runs *)
(* without interruption between two awaits: search_web awaits the search   *)
(* service and then draws its id, puts its entry and cleans up in one      *)
(* piece; save_to_db has no await between its cleanup, its lookup and its  *)
(* inserts (the repository is synchronous).                                *)

Sessions == {"s1", "s2"}

\* the search_web requests one session may have waiting at a time
MaxPending == 1

\* the handler returns that are explored
MaxConcOps == 4

ConcOpsLeft == ops < MaxConcOps

RemoveAt(q, i) == SubSeq(q, 1, i - 1) \o SubSeq(q, i + 1, Len(q))

\* the search_web handler up to its await: the request to the service is sent
SearchBegin(session, query) ==
    /\ Len(pending[session]) < MaxPending
    /\ pending' = [pending EXCEPT ![session] = Append(@, query)]
    /\ UNCHANGED serverVars

\* the service answers request i of the session, in any order, and the
\* handler runs from its await to its return
SearchReturn(session, i, status, answerText, sources) ==
    /\ i \in 1..Len(pending[session])
    /\ search_web_call(pending[session][i], status, answerText, sources)
    /\ pending' = [pending EXCEPT ![session] = RemoveAt(@, i)]

\* a save_to_db request of a session: the handler runs in one piece
SessionSaveRequest(session, result_id, topic) ==
    /\ save_to_db(result_id, topic)
    /\ UNCHANGED pending

NoneInFlight == pending = [s \in Sessions |-> <<>>]

SearchBeginStep == \E s \in Sessions, q \in Queries : SearchBegin(s, q)

SearchReturnStep ==
    /\ ConcOpsLeft
    /\ \E s \in Sessions, i \in 1..MaxPending, st \in {200, 500},
          a \in Answers, src \in {<<>>, <<SrcBlankUrl, SrcGood>>} :
          SearchReturn(s, i, st, a, src)

SaveRequestStep ==
    /\ ConcOpsLeft
    /\ \E s \in Sessions, id \in ResultIdChoices, t \in {None} :
          SessionSaveRequest(s, id, t)

ConcClockForwardStep ==
    ConcOpsLeft /\ (\E d \in ClockSteps : ClockAdvance(d)) /\ UNCHANGED pending

ConcClockBackStep == ConcOpsLeft /\ ClockStepBack(1) /\ UNCHANGED pending

---------------------------------------------------------------------------
(* The specifications.                                                     *)

vars == <<serverVars, loopVars, readVars, streamVars, configVars, flightVars>>

\* what the server's handlers leave alone, and what the loop's nodes do
outsideServer == <<loopVars, readVars, streamVars, configVars, flightVars>>
outsideLoop == <<serverVars, readVars, streamVars, configVars, flightVars>>
outsideRepo == <<loopVars, streamVars, configVars, flightVars>>
outsideStream == <<serverVars, loopVars, readVars, configVars, flightVars>>
outsideSession == <<loopVars, readVars, streamVars, flightVars>>
outsideConfig == <<serverVars, loopVars, readVars, streamVars, flightVars>>
outsideRequests == <<loopVars, readVars, streamVars, configVars>>

\* nothing has been read, no turn is streamed and no request is in flight
Quiet == reply = NoReply /\ StreamInitial /\ NoneInFlight

\* the server, called by any client, from a cold or a warm cache
Init == ServerInit /\ LoopInitial /\ Quiet /\ Configured

Next ==
    \/ SearchStep /\ UNCHANGED outsideServer
    \/ SearchFailStep /\ UNCHANGED outsideServer
    \/ SaveStep /\ UNCHANGED outsideServer
    \/ ClockForwardStep /\ UNCHANGED outsideServer
    \/ ClockBackStep /\ UNCHANGED outsideServer

Spec == Init /\ [][Next]_vars

\* the dispatch loop
LoopInit == ServerInit /\ ~warm /\ LoopInitial /\ Quiet /\ Configured

LoopNext ==
    \/ TurnStep /\ UNCHANGED outsideLoop
    \/ ModelStep /\ UNCHANGED outsideLoop
    \/ ToolsStep /\ UNCHANGED outsideLoop

LoopSpec == LoopInit /\ [][LoopNext]_vars

\* the dispatch loop when a node that can run does run (the model answers,
\* the tools return); a user need not send another message
FairLoopSpec ==
    /\ LoopSpec
    /\ WF_vars(ModelStep /\ UNCHANGED outsideLoop)
    /\ WF_vars(ToolsStep /\ UNCHANGED outsideLoop)

\* the repository, called directly
RepoInit == ServerInit /\ ~warm /\ LoopInitial /\ Quiet /\ Configured

RepoNext ==
    \/ RepoSaveStep /\ UNCHANGED outsideRepo
    \/ RepoListByTopicStep /\ UNCHANGED outsideRepo
    \/ RepoListAllStep /\ UNCHANGED outsideRepo
    \/ RepoGetByIdStep /\ UNCHANGED outsideRepo
    \/ RepoClockForwardStep /\ UNCHANGED outsideRepo
    \/ RepoClockBackStep /\ UNCHANGED outsideRepo

RepoSpec == RepoInit /\ [][RepoNext]_vars

\* the repository when an insert may fail
FaultInit == ServerInit /\ ~warm /\ LoopInitial /\ Quiet /\ Configured

FaultNext ==
    \/ RepoSaveStep /\ UNCHANGED outsideRepo
    \/ RepoSaveFailStep /\ UNCHANGED outsideRepo
    \/ RepoGetByIdStep /\ UNCHANGED outsideRepo
    \/ RepoClockForwardStep /\ UNCHANGED outsideRepo

FaultSpec == FaultInit /\ [][FaultNext]_vars

\* the server's writing and reading tools together, from a cold cache
ToolInit == ServerInit /\ ~warm /\ LoopInitial /\ Quiet /\ Configured

ToolNext ==
    \/ ToolSearchStep /\ UNCHANGED outsideServer
    \/ ToolSaveStep /\ UNCHANGED outsideServer
    \/ GetFromDbStep /\ UNCHANGED outsideRepo
    \/ GetAllFromDbStep /\ UNCHANGED outsideRepo
    \/ GetByIdStep /\ UNCHANGED outsideRepo

ToolSpec == ToolInit /\ [][ToolNext]_vars

\* searching, saving and reading back one row, with the texts that make
\* every case of the derivation of a row happen
SaveInit == ServerInit /\ ~warm /\ LoopInitial /\ Quiet /\ Configured

SaveNext ==
    \/ RichSearchStep /\ UNCHANGED outsideServer
    \/ ToolSaveStep /\ UNCHANGED outsideServer
    \/ GetByIdStep /\ UNCHANGED outsideRepo

SaveSpec == SaveInit /\ [][SaveNext]_vars

\* sessions of at most SessionLen messages a thread, represented whole
SessionInit == ServerInit /\ ~warm /\ LoopAt(SessionLen) /\ Quiet /\ Configured

SessionNext ==
    \/ SessionRoom /\ TurnStep /\ UNCHANGED outsideLoop
    \/ SessionRoom /\ ModelStep /\ UNCHANGED outsideLoop
    \/ SessionRoom /\ ToolsStep /\ UNCHANGED outsideLoop

SessionSpec == SessionInit /\ [][SessionNext]_vars

\* the two processes from their start, under any configuration
ConfigInit == ServerInit /\ ~warm /\ LoopInitial /\ Quiet /\ Unstarted

ConfigNext ==
    \/ ServerListen /\ UNCHANGED outsideConfig
    \/ AgentStart /\ UNCHANGED outsideConfig
    \/ SessionSearchStep /\ UNCHANGED outsideSession
    \/ SessionSaveStep /\ UNCHANGED outsideSession

ConfigSpec == ConfigInit /\ [][ConfigNext]_vars

\* several sessions' requests on the one server, from a cold or a warm cache
ConcInit == ServerInit /\ LoopInitial /\ Quiet /\ Configured

ConcNext ==
    \/ SearchBeginStep /\ UNCHANGED outsideRequests
    \/ SearchReturnStep /\ UNCHANGED outsideRequests
    \/ SaveRequestStep /\ UNCHANGED outsideRequests
    \/ ConcClockForwardStep /\ UNCHANGED outsideRequests
    \/ ConcClockBackStep /\ UNCHANGED outsideRequests

ConcSpec == ConcInit /\ [][ConcNext]_vars

\* the sessions under a clock that is never set back
RetainInit == ServerInit /\ LoopInitial /\ Quiet /\ Configured

RetainNext ==
    \/ SearchBeginStep /\ UNCHANGED outsideRequests
    \/ SearchReturnStep /\ UNCHANGED outsideRequests
    \/ SaveRequestStep /\ UNCHANGED outsideRequests
    \/ ConcClockForwardStep /\ UNCHANGED outsideRequests

RetainSpec == RetainInit /\ [][RetainNext]_vars

\* the client's reading of the streams of its turns
StreamInit == ServerInit /\ ~warm /\ LoopInitial /\ Quiet /\ Configured

StreamNext ==
    \/ StreamStart /\ UNCHANGED outsideStream
    \/ StreamChunkStep /\ UNCHANGED outsideStream
    \/ StreamEnd /\ UNCHANGED outsideStream

StreamSpec == StreamInit /\ [][StreamNext]_vars

---------------------------------------------------------------------------
(* Helpers of the properties.                                              *)

Range(f) == {f[i] : i \in DOMAIN f}

IsPrefix(a, b) == Len(a) <= Len(b) /\ SubSeq(b, 1, Len(a)) = a

\* the step just taken was a handler of the given tool
Ran(op) == lastOp'.op = op

\* result_id is unknown to the cache, or its entry is older than the TTL
MissAtLookup(id) ==
    \/ id \notin CacheIds(searchCache)
    \/ \E i \in 1..Len(searchCache) :
          searchCache[i].id = id /\ now - searchCache[i].createdAt > SEARCH_CACHE_TTL_MS

\* the sources save_to_db may turn into rows: those among the first five
\* whose url is present and not blank
EligibleSources(sources) ==
    {i \in 1..Min(Len(sources), SAVE_MAX_SOURCES) :
        sources[i].url # None /\ Trim(sources[i].url[1]) # <<>>}

---------------------------------------------------------------------------
(* C1: a save_to_db call whose result_id is not in the cache at lookup     *)
(* time (never issued, already evicted, or older than the TTL) leaves the  *)
(* repository unchanged and returns the "No cached search found" text as   *)
(* a normal tool result, not as an error.                                  *)
C1_SaveMissLeavesRepository ==
    [][(Ran("save_to_db") /\ MissAtLookup(lastOp'.handle))
         => /\ rows' = rows
            /\ lastOp'.text = "no_cached_search"
            /\ ~lastOp'.thrown
            /\ lastOp'.ids = <<>>]_vars

\* a save on a handle that was issued, with rows in the repository, missed
C1_Witness ==
    /\ lastOp.op = "save_to_db"
    /\ lastOp.text = "no_cached_search"
    /\ lastOp.handle \in DOMAIN issued
    /\ issued[lastOp.handle].sources # <<>>
    /\ rows # <<>>

(* C2: a search_web call, successful or failed, never changes the          *)
(* repository; a successful one adds at most its own entry to the cache,   *)
(* a failed one leaves the cache as it was.                                *)
C2_SearchNeverWritesRepository ==
    [][Ran("search_web")
         => /\ rows' = rows
            /\ CacheIds(searchCache') \subseteq CacheIds(searchCache) \cup {lastOp'.handle}
            /\ lastOp'.thrown => searchCache' = searchCache]_vars

\* a successful search ran while the repository held rows
C2_Witness ==
    /\ lastOp.op = "search_web"
    /\ lastOp.text = "result"
    /\ issued[lastOp.handle].sources # <<>>
    /\ rows # <<>>

(* C3: every row was created by a save_to_db call on a handle that an      *)
(* earlier successful search_web issued and that was in the cache at the   *)
(* time of the save, and its url is the trimmed url of one of that         *)
(* result's sources; no other operation creates rows.                      *)
C3_RowsComeFromCachedSearches ==
    [][/\ \A i \in 1..Len(rows') :
             /\ rowOrigin'[i] \in IssuedIds'
             /\ \E k \in 1..Len(ResultOfIn(issued', rowOrigin'[i]).sources) :
                   LET src == ResultOfIn(issued', rowOrigin'[i]).sources[k]
                   IN  src.url # None /\ rows'[i].url = Trim(src.url[1])
       /\ rows' # rows
            => /\ Ran("save_to_db")
               /\ IsPrefix(rows, rows')
               /\ lastOp'.handle \in IssuedIds
               /\ lastOp'.handle \in CacheIds(searchCache')
               /\ \A i \in (Len(rows) + 1)..Len(rows') :
                     rowOrigin'[i] = lastOp'.handle]_vars

\* rows exist, saved from a result whose url needed trimming
C3_Witness ==
    /\ Len(rows) >= 2
    /\ \E i \in 1..Len(rows) :
          \E k \in 1..Len(ResultOf(rowOrigin[i]).sources) :
             LET src == ResultOf(rowOrigin[i]).sources[k]
             IN  src.url # None /\ src.url[1] # rows[i].url /\ Trim(src.url[1]) = rows[i].url

(* C4 as stated: the sources of one cached search result are inserted      *)
(* into the repository at most once, however often save_to_db is called    *)
(* with its handle.                                                        *)
C4_InsertedAtMostOnce ==
    \A h \in Range(rowOrigin) :
        Cardinality({i \in 1..Len(rows) : rowOrigin[i] = h})
            <= Cardinality(EligibleSources(ResultOf(h).sources))

(* C4 as amended: one save_to_db call inserts each eligible source of the  *)
(* cached result exactly once (at most five rows); every further           *)
(* save_to_db call with the same handle, while it is cached, inserts them  *)
(* again as new rows.                                                      *)
C4_OncePerCall ==
    [][(Ran("save_to_db") /\ lastOp'.text = "saved")
         => LET n == Cardinality(EligibleSources(ResultOf(lastOp'.handle).sources))
            IN  /\ Len(rows') = Len(rows) + n
                /\ Len(lastOp'.ids) = n
                /\ n <= SAVE_MAX_SOURCES]_vars

\* the same handle was saved twice, each time inserting its source
C4_Witness ==
    \E i, j \in 1..Len(rows) : i < j /\ rowOrigin[i] = rowOrigin[j]

(* C5: the cache never holds more than SEARCH_CACHE_MAX_ITEMS entries at   *)
(* the end of a search_web or save_to_db handler, after any sequence of    *)
(* operations and any clock values.                                        *)
C5_CacheWithinCapacity == Len(searchCache) <= SEARCH_CACHE_MAX_ITEMS

\* the cache is full although more entries were put than it can hold and
\* none has expired: the size pass has removed the surplus
C5_Witness ==
    /\ warm
    /\ Len(searchCache) = SEARCH_CACHE_MAX_ITEMS
    /\ WarmCount + Cardinality(DOMAIN issued) > SEARCH_CACHE_MAX_ITEMS

(* C6: after a handler's cleanup no entry older than the TTL remains; an   *)
(* entry aged exactly the TTL or less is not removed by the age pass; a    *)
(* successful save_to_db used an entry no older than the TTL.              *)
C6_NoStaleEntryAfterCleanup ==
    [][(Ran("save_to_db") \/ (Ran("search_web") /\ ~lastOp'.thrown))
         => /\ \A i \in 1..Len(searchCache') :
                  ~(now - searchCache'[i].createdAt > SEARCH_CACHE_TTL_MS)
            /\ Len(searchCache) < SEARCH_CACHE_MAX_ITEMS
                 => \A i \in 1..Len(searchCache) :
                       now - searchCache[i].createdAt <= SEARCH_CACHE_TTL_MS
                          => searchCache[i] \in Range(searchCache')
            /\ lastOp'.text = "saved"
                 => \E i \in 1..Len(searchCache') :
                       /\ searchCache'[i].id = lastOp'.handle
                       /\ now - searchCache'[i].createdAt <= SEARCH_CACHE_TTL_MS]_vars

\* after a save, an entry aged exactly the TTL is still cached while an
\* older one has been removed
C6_Witness ==
    /\ lastOp.op = "save_to_db"
    /\ \E i \in 1..Len(searchCache) : now - searchCache[i].createdAt = SEARCH_CACHE_TTL_MS
    /\ \E h \in DOMAIN issued :
          h \notin CacheIds(searchCache) /\ now - issued[h].createdAt > SEARCH_CACHE_TTL_MS

(* C7: immediately after search_web has stored a result under a fresh      *)
(* handle and run cleanup, a lookup of the handle returns an entry equal   *)
(* to the result in query, answerText and sources.                         *)
C7_PutThenGet ==
    (lastOp.op = "search_web" /\ lastOp.text = "result")
        => LET got == CacheGet(searchCache, lastOp.handle)
           IN  /\ got # None
               /\ got[1].query = issued[lastOp.handle].query
               /\ got[1].answerText = issued[lastOp.handle].answerText
               /\ got[1].sources = issued[lastOp.handle].sources


---------------------------------------------------------------------------
(* The dispatch loop's properties.  AwaitingModel is node = "model",       *)
(* ExecutingTools is node = "tools", Done is node = "END".                 *)

Messages == checkpoint[running]

\* the latest message is a model response that carries tool calls
ToolsRequested == Last(Messages).role = "ai" /\ Len(Last(Messages).tool_calls) > 0

\* the number of tool messages at the end of msgs
RECURSIVE TrailingTools(_)
TrailingTools(msgs) ==
    IF msgs # <<>> /\ Last(msgs).role = "tool"
    THEN 1 + TrailingTools(SubSeq(msgs, 1, Len(msgs) - 1))
    ELSE 0

\* msgs ends with a model response followed by one tool message for each of
\* its tool calls, in the order of the calls
AnsweredCallByCall(msgs) ==
    LET n == TrailingTools(msgs)
    IN  /\ n >= 1
        /\ Len(msgs) > n
        /\ LET request == msgs[Len(msgs) - n]
           IN  /\ request.role = "ai"
               /\ Len(request.tool_calls) = n
               /\ \A i \in 1..n :
                     /\ msgs[Len(msgs) - n + i].call = i
                     /\ msgs[Len(msgs) - n + i].name = request.tool_calls[i]

(* C8: the loop starts at the model node; from the model node it goes to   *)
(* the tools node if and only if the model's latest response carries at    *)
(* least one tool call, and otherwise ends; from the tools node it always  *)
(* returns to the model node.  No tool runs unless the immediately         *)
(* preceding model response requested it, and Done is never reached from   *)
(* ExecutingTools.                                                         *)
C8_LoopTransitions ==
    [][\/ /\ node \in {"idle", "END"}
          /\ node' = "model"
          /\ Last(Messages').role = "human"
       \/ /\ node = "model"
          /\ Last(Messages').role = "ai"
          /\ node' = (IF Len(Last(Messages').tool_calls) >= 1 THEN "tools" ELSE "END")
       \/ /\ node = "tools"
          /\ ToolsRequested
          /\ node' = "model"
          /\ AnsweredCallByCall(Messages')]_vars

\* a turn has ended after the tools node ran
C8_Witness == node = "END" /\ toolVisits >= 1

(* C9: in a turn where the model returns k responses with tool calls       *)
(* before one without, the loop visits AwaitingModel k+1 times and         *)
(* ExecutingTools k times, and appends one tool message per requested      *)
(* tool call before the next model consultation.                           *)
C9_VisitCounts ==
    /\ (node = "END" /\ modelVisits < VisitCap)
          => modelVisits = toolResponses + 1 /\ toolVisits = toolResponses
    /\ (node = "model" /\ modelVisits < VisitCap)
          => modelVisits = toolResponses /\ toolVisits = toolResponses
    /\ (node = "model" /\ modelVisits >= 1) => AnsweredCallByCall(Messages)

\* a turn with one tool round has ended: two model visits, one tools visit
C9_Witness ==
    /\ node = "END"
    /\ toolResponses = 1
    /\ modelVisits = 2
    /\ toolVisits = 1
    /\ Len(Messages) >= 3
    /\ Messages[Len(Messages) - 1].role = "tool"
    /\ Messages[Len(Messages) - 1].name = "search_web"
    /\ Messages[Len(Messages) - 2].role = "ai"

(* C10 as stated: every turn started by a user message eventually reaches  *)
(* Done, whatever the model answers.                                       *)
C10_EveryTurnReachesDone == (node = "model") ~> (node = "END")

(* C10 as amended: the graph puts no bound on the rounds of a turn.  A     *)
(* turn reaches Done only by a model response without tool calls, and      *)
(* reaches it at once when the model gives one; while the model's          *)
(* responses carry tool calls the turn goes on and is not Done.            *)
C10_DoneOnlyByPlainResponse ==
    [][/\ (node' = "END" /\ node # "END")
            => /\ node = "model"
               /\ Last(Messages').role = "ai"
               /\ Last(Messages').tool_calls = <<>>
       /\ (node = "model" /\ Last(Messages').tool_calls = <<>>) => node' = "END"
       /\ (node = "model" /\ Last(Messages').tool_calls # <<>>) => node' = "tools"
       /\ node = "tools" => node' = "model"]_vars

\* a turn has ended after at least two tool rounds
C10_Witness == node = "END" /\ toolResponses >= 2 /\ toolVisits >= 2

---------------------------------------------------------------------------
(* The repository's properties.                                            *)

\* the step just taken was a saveMany call on the repository
RanSaveMany == lastOp'.op = "saveMany" /\ ops' = ops + 1

\* the fields a caller supplies
Supplied(r) ==
    [topic |-> r.topic, source |-> r.source, title |-> r.title, url |-> r.url,
     summary |-> r.summary]

(* C11: saveMany on N rows returns N ids, strictly increasing in input     *)
(* order, each greater than every id assigned before and each retrievable  *)
(* by getById as the row it was given; no id is ever assigned twice and    *)
(* no stored row changes.                                                  *)
C11_IdsFreshAndIncreasing ==
    [][RanSaveMany
         => LET ids == reply'.ids
                given == reply'.given
            IN  /\ Len(ids) = Len(given)
                /\ Len(rows') = Len(rows) + Len(given)
                /\ IsPrefix(rows, rows')
                /\ \A i, j \in 1..Len(ids) : i < j => ids[i] < ids[j]
                /\ \A i \in 1..Len(ids) :
                      /\ \A r \in 1..Len(rows) : rows[r].id < ids[i]
                      /\ getById(rows', ids[i]) # None
                      /\ getById(rows', ids[i])[1].id = ids[i]
                      /\ Supplied(getById(rows', ids[i])[1]) = given[i]
                /\ \A a, b \in 1..Len(rows') : a # b => rows'[a].id # rows'[b].id]_vars

\* a second saveMany call has returned two ids
C11_Witness ==
    /\ reply.op = "saveMany"
    /\ Len(reply.ids) = 2
    /\ Len(rows) >= 3
    /\ reply.given[1] # reply.given[2]

OrderedByCreatedAtDesc(s) ==
    \A i, j \in 1..Len(s) : i < j => s[i].created_at >= s[j].created_at

\* what C12 says of one listByTopic result
WithinLimitOfTopicNewestFirst ==
    /\ Len(reply.out) <= reply.limit \/ reply.out = <<>>
    /\ \A i \in 1..Len(reply.out) : reply.out[i].topic = reply.topic
    /\ OrderedByCreatedAtDesc(reply.out)

(* C12 as stated: for every repository state, topic and integer limit,     *)
(* listByTopic(topic, limit) returns at most limit rows, every returned    *)
(* row has the queried topic, and the rows are in non-increasing           *)
(* created_at order.                                                       *)
C12_ListByTopicWithinLimit ==
    reply.op = "listByTopic" => WithinLimitOfTopicNewestFirst

(* C12 as amended: the same for every limit that is not negative, which    *)
(* covers the default and every limit the server's tools pass; a negative  *)
(* limit is no limit, and every row of the topic is returned.              *)
C12_WithinLimitFromZero ==
    /\ (reply.op = "listByTopic" /\ reply.limit >= 0) => WithinLimitOfTopicNewestFirst
    /\ (reply.op = "listByTopic" /\ reply.limit < 0)
          => /\ Len(reply.out) = Len(SelectSeq(rows, LAMBDA r : r.topic = reply.topic))
             /\ \A i \in 1..Len(reply.out) : reply.out[i].topic = reply.topic
             /\ OrderedByCreatedAtDesc(reply.out)

\* listByTopic with limit 1 returned the newer of two rows of the topic,
\* not the one inserted first
C12_Witness ==
    /\ reply.op = "listByTopic"
    /\ reply.limit = 1
    /\ Len(reply.out) = 1
    /\ \E i, j \in 1..Len(rows) :
          /\ i < j
          /\ rows[j] = reply.out[1]
          /\ rows[i].topic = reply.topic
          /\ rows[i].created_at < rows[j].created_at

---------------------------------------------------------------------------
(* The properties of the server's tools on the repository.                 *)

\* the step just taken was a save_to_db call that found its entry
RanSaved == lastOp'.op = "save_to_db" /\ lastOp'.text = "saved" /\ ops' = ops + 1

\* the sources save_to_db turns into rows, in their order
EligibleSeq(sources) ==
    SelectSeq(Slice0(sources, SAVE_MAX_SOURCES),
              LAMBDA src : src.url # None /\ Trim(src.url[1]) # <<>>)

\* the first text that is not empty
FirstNonEmpty(a, b, c) == IF a # <<>> THEN a ELSE IF b # <<>> THEN b ELSE c

---------------------------------------------------------------------------
(* The standing policy and the session's conversation.                     *)

SystemMessages(msgs) == SelectSeq(msgs, LAMBDA m : m.role = "system")

---------------------------------------------------------------------------
(* The text shown while a turn is streamed.                                *)

RECURSIVE Flatten(_)
Flatten(ts) == IF ts = <<>> THEN <<>> ELSE Head(ts) \o Flatten(Tail(ts))

\* the texts of the chunks of the model node, in arrival order
RECURSIVE ModelTexts(_)
ModelTexts(cs) ==
    IF cs = <<>> THEN <<>>
    ELSE LET c == Head(cs)
             t == IF c.content.kind = "string" THEN c.content.text
                  ELSE IF c.content.kind = "array"
                       THEN Flatten([i \in DOMAIN c.content.blocks |->
                                IF c.content.blocks[i].kind = "text"
                                THEN c.content.blocks[i].text ELSE <<>>])
                       ELSE <<>>
         IN  (IF c.isArray /\ c.langgraph_node = "model" /\ t # <<>>
              THEN <<t>> ELSE <<>>) \o ModelTexts(Tail(cs))

(* C15: while a turn is streamed the writes are exactly the non-empty      *)
(* texts of the chunks of the model node, in arrival order (a chunk of the *)
(* tools node adds nothing); when the turn has ended one more write        *)
(* follows, which is '(no assistant text returned)' exactly when the       *)
(* concatenation of those texts is empty, and a line break otherwise.      *)
C15_StreamedTextIsModelText ==
    /\ streaming => stdout = ModelTexts(chunks)
    /\ streamed = Flatten(ModelTexts(chunks))
    /\ (~streaming /\ stdout # <<>>) =>
           /\ SubSeq(stdout, 1, Len(stdout) - 1) = ModelTexts(chunks)
           /\ Last(stdout) \in {NoTextNotice, <<NEWLINE>>}
           /\ Last(stdout) = NoTextNotice
                  <=> Flatten(ModelTexts(chunks)) = <<>>

\* a turn has ended in which a tools chunk with text was passed over and
\* a model chunk of several blocks was shown
C15_Witness ==
    /\ ~streaming
    /\ \E i \in DOMAIN chunks :
           /\ chunks[i].langgraph_node = "tools"
           /\ chunks[i].content = StringContent(<<"b">>)
    /\ \E i \in DOMAIN chunks :
           /\ chunks[i].langgraph_node = "model"
           /\ chunks[i].content.kind = "array"
           /\ chunks[i].content.blocks # <<>>
    /\ stdout = <<<<"a", "b">>, <<NEWLINE>>>>

---------------------------------------------------------------------------
(* The conversation of a session across turns.                             *)

---------------------------------------------------------------------------
(* Repeated confirmations.                                                 *)

RowIds(tbl) == {tbl[i].id : i \in 1..Len(tbl)}

(* C17: a successful save_to_db call, whatever was saved before from the   *)
(* same handle or the same url, leaves the earlier rows as they are and    *)
(* adds one row for each eligible source of the cached result, with ids    *)
(* that are pairwise different and different from every earlier id; the    *)
(* cache entry it read is still in the cache afterwards, unaltered.        *)
C17_RepeatedSavesAddFreshRows ==
    [][RanSaved
         => LET h == lastOp'.handle
                ids == lastOp'.ids
            IN  /\ IsPrefix(rows, rows')
                /\ Len(rows') = Len(rows) + Len(ids)
                /\ Len(ids) = Cardinality(EligibleSources(ResultOf(h).sources))
                /\ \A k \in 1..Len(ids) :
                      /\ rows'[Len(rows) + k].id = ids[k]
                      /\ ids[k] \notin RowIds(rows)
                      /\ \A j \in 1..Len(ids) : j # k => ids[j] # ids[k]
                /\ CacheGet(searchCache, h) # None
                /\ CacheGet(searchCache', h) = CacheGet(searchCache, h)]_vars

\* one handle was saved twice under different topics, and two handles whose
\* sources share a url were saved under the same topic
C17_Witness ==
    /\ \E i, j \in 1..Len(rows) :
          /\ i < j
          /\ rowOrigin[i] = rowOrigin[j]
          /\ rows[i].url = rows[j].url
          /\ rows[i].topic # rows[j].topic
          /\ rows[i].id # rows[j].id
    /\ \E i, j \in 1..Len(rows) :
          /\ i < j
          /\ rowOrigin[i] # rowOrigin[j]
          /\ rows[i].url = rows[j].url
          /\ rows[i].topic = rows[j].topic
          /\ rows[i].id # rows[j].id

---------------------------------------------------------------------------
(* A search the service refuses.                                           *)

(* C18: a search_web call that the search service answers with a status    *)
(* that is not a success ends with a thrown error and not with a result,   *)
(* issues no handle, and leaves the cache and the repository as they were. *)
C18_FailedSearchChangesNothing ==
    [][\A q \in Queries, st \in Statuses, a \in Answers, s \in SourceLists :
          (~RespOk(st) /\ search_web_call(q, st, a, s))
             => /\ lastOp'.op = "search_web"
                /\ lastOp'.thrown
                /\ lastOp'.text = "error"
                /\ lastOp'.text # "result"
                /\ lastOp'.handle \notin IssuedIds'
                /\ issued' = issued
                /\ searchCache' = searchCache
                /\ rows' = rows]_vars

\* a search failed when the cache held an issued result and the repository
\* held rows saved from it
C18_Witness ==
    /\ lastOp.op = "search_web"
    /\ lastOp.thrown
    /\ ~warm
    /\ Len(searchCache) = 1
    /\ Len(rows) >= 1
    /\ Cardinality(DOMAIN issued) = 1

---------------------------------------------------------------------------
(* Configuration errors.                                                   *)

(* C19: a missing credential (OPENAI_API_KEY, PERPLEXITY_API_KEY) or a     *)
(* missing required tool is detected at start-up: the agent is not ready   *)
(* to serve a turn while one of them is missing, and no missing            *)
(* credential is first detected during a tool call.                        *)
C19_ConfigErrorsFatalAtStartup ==
    /\ agent = "ready"
         => /\ Credentials \subseteq env
            /\ REQUIRED_DB_TOOLS \subseteq offered
    /\ failure.at # "tool_call"

---------------------------------------------------------------------------
(* Arguments the reading tools refuse.                                     *)

\* twice the number: a whole number from lo to hi (numbers are written in
\* halves)
WholeWithin(h, lo, hi) == h % 2 = 0 /\ h >= 2 * lo /\ h <= 2 * hi

\* the call recorded in r had an argument outside what its tool accepts
Malformed(r) ==
    \/ /\ r.op = "get_by_id"
       /\ ~(r.given[1] % 2 = 0 /\ r.given[1] >= 2)
    \/ /\ r.op = "get_from_db"
       /\ r.given # None
       /\ ~WholeWithin(r.given[1], 1, 50)
    \/ /\ r.op = "get_all_from_db"
       /\ r.given # None
       /\ ~WholeWithin(r.given[1], 1, 500)

(* C20: a get_by_id call whose id is not a positive integer, a get_from_db *)
(* call whose limit is not an integer in 1..50 and a get_all_from_db call  *)
(* whose limit is not an integer in 1..500 are answered with an error      *)
(* without any query being run, and leave the repository and the cache as  *)
(* they were; every other call of these tools runs one query.              *)
C20_MalformedArgumentsRejected ==
    [][reply' # reply
         => /\ reply'.op \in {"get_by_id", "get_from_db", "get_all_from_db"}
            /\ rows' = rows
            /\ searchCache' = searchCache
            /\ IF Malformed(reply')
               THEN /\ reply'.thrown
                    /\ reply'.queries = 0
                    /\ reply'.out = <<>>
               ELSE /\ ~reply'.thrown
                    /\ reply'.queries = 1]_vars

\* get_from_db was refused a limit of 51 for a topic that has stored rows
C20_Witness ==
    /\ reply.op = "get_from_db"
    /\ reply.thrown
    /\ reply.given = Some(102)
    /\ \E i \in 1..Len(rows) : rows[i].topic = reply.topic
    /\ searchCache # <<>>

---------------------------------------------------------------------------
(* The two passes of the cache's cleanup.                                  *)

\* a handler that runs cleanupSearchCache has just returned
RanCleanup ==
    /\ ops' = ops + 1
    /\ \/ lastOp'.op = "save_to_db"
       \/ lastOp'.op = "search_web" /\ ~lastOp'.thrown

\* the cache when the handler calls cleanupSearchCache: search_web has put
\* its entry, save_to_db has changed nothing yet
BeforeCleanup ==
    IF lastOp'.op = "search_web"
    THEN Append(searchCache,
                [id |-> lastOp'.handle,
                 query |-> issued'[lastOp'.handle].query,
                 answerText |-> issued'[lastOp'.handle].answerText,
                 sources |-> issued'[lastOp'.handle].sources,
                 createdAt |-> issued'[lastOp'.handle].createdAt])
    ELSE searchCache

(* C21: the cleanup a handler runs keeps, in their order, the entries      *)
(* within the TTL, less the surplus over 200 of them: exactly              *)
(* (survivors - 200) survivors are removed when more than 200 survive and  *)
(* none otherwise; a removed survivor is no younger than any entry that    *)
(* remains, and of survivors of equal createdAt the earlier inserted go    *)
(* first; nothing is removed when every entry is within the TTL and at     *)
(* most 200 are held.                                                      *)
C21_AgePassThenOldestFirst ==
    [][RanCleanup
         => \A base \in {BeforeCleanup} :
            \A survivors \in {SelectSeq(base,
                    LAMBDA e : now - e.createdAt <= SEARCH_CACHE_TTL_MS)} :
            \A keptIds \in {CacheIds(searchCache')} :
            \A gone \in {{i \in 1..Len(survivors) : survivors[i].id \notin keptIds}} :
                /\ searchCache' = SelectSeq(survivors, LAMBDA e : e.id \in keptIds)
                /\ Cardinality(gone) =
                      IF Len(survivors) > SEARCH_CACHE_MAX_ITEMS
                      THEN Len(survivors) - SEARCH_CACHE_MAX_ITEMS
                      ELSE 0
                /\ \A i \in gone :
                      /\ \A k \in 1..Len(searchCache') :
                            searchCache'[k].createdAt >= survivors[i].createdAt
                      /\ \A j \in 1..(i - 1) :
                            survivors[j].createdAt = survivors[i].createdAt
                               => j \in gone
                /\ (survivors = base /\ Len(base) <= SEARCH_CACHE_MAX_ITEMS)
                      => searchCache' = base]_vars

\* a search found 201 entries within the TTL, 199 of them of one age: the
\* earliest inserted of these was removed and the next one was kept
C21_Witness ==
    /\ warm
    /\ lastOp.op = "search_web"
    /\ ~lastOp.thrown
    /\ now - BootTime <= SEARCH_CACHE_TTL_MS
    /\ Len(searchCache) = SEARCH_CACHE_MAX_ITEMS
    /\ searchCache[1].id = 2
    /\ searchCache[1].createdAt = BootTime
    /\ \A h \in DOMAIN issued : h \in CacheIds(searchCache)

---------------------------------------------------------------------------
(* How many rows a save inserts, and from which sources.                   *)

\* the rows the step has added to the repository
NewRows == SubSeq(rows', Len(rows) + 1, Len(rows'))

\* the first five sources of the result the step saved
Considered == Slice0(ResultOf(lastOp'.handle).sources, SAVE_MAX_SOURCES)

(* C22 as stated: a successful save_to_db inserts at most 5 rows, each     *)
(* from a source whose url parses, and as many rows as there are sources   *)
(* with a url that parses among those considered.                          *)
C22_RowsFromParseableUrls ==
    [][RanSaved
         => /\ Len(NewRows) <= SAVE_MAX_SOURCES
            /\ \A i \in 1..Len(NewRows) :
                  /\ UrlParses(NewRows[i].url)
                  /\ \E k \in 1..Len(Considered) :
                        /\ Considered[k].url # None
                        /\ Trim(Considered[k].url[1]) = NewRows[i].url
            /\ Len(NewRows) =
                  Cardinality({k \in 1..Len(Considered) :
                      /\ Considered[k].url # None
                      /\ UrlParses(Trim(Considered[k].url[1]))})]_vars

(* C22 as amended: a successful save_to_db inserts one row for each of the *)
(* first five sources that has a url which is not blank, in their order,   *)
(* whether the url parses or not (the row's source is then "unknown"), and *)
(* skips the sources without a url or with a blank one: between 0 and 5    *)
(* rows.                                                                   *)
C22_RowsFromSourcesWithUrl ==
    [][RanSaved
         => LET withUrl == SelectSeq(Considered,
                    LAMBDA src : src.url # None /\ Trim(src.url[1]) # <<>>)
            IN  /\ Len(NewRows) = Len(withUrl)
                /\ Len(NewRows) = Len(lastOp'.ids)
                /\ Len(NewRows) \in 0..SAVE_MAX_SOURCES
                /\ \A i \in 1..Len(NewRows) :
                      /\ NewRows[i].url = Trim(withUrl[i].url[1])
                      /\ NewRows[i].url # <<>>
                      /\ ~UrlParses(NewRows[i].url) => NewRows[i].source = Unknown]_vars

\* a result of six sources with urls was saved: five rows were inserted,
\* some of them from urls that do not parse
C22_Witness ==
    /\ lastOp.op = "save_to_db"
    /\ lastOp.text = "saved"
    /\ Len(lastOp.ids) = SAVE_MAX_SOURCES
    /\ Len(ResultOf(lastOp.handle).sources) > SAVE_MAX_SOURCES
    /\ \E i \in 1..Len(rows) :
          rows[i].id \in Range(lastOp.ids) /\ rows[i].source = Unknown

---------------------------------------------------------------------------
(* The topic of the rows of one save.                                      *)

(* C23 as stated: every row one save_to_db call inserts carries the topic  *)
(* the caller supplied, and the cached result's query when the caller      *)
(* supplied none.                                                          *)
C23_TopicAsSupplied ==
    [][\A id \in ResultIdChoices, t \in Topics :
          (save_to_db(id, t) /\ lastOp'.text = "saved")
             => \A i \in 1..Len(NewRows) :
                   NewRows[i].topic = (IF t # None THEN t[1]
                                       ELSE ResultOf(id).query)]_vars

(* C23 as amended: every row one save_to_db call inserts carries the same  *)
(* topic: the supplied topic with the white space at its ends removed,     *)
(* when that is not empty, and otherwise (no topic, or a blank one) the    *)
(* cached result's query as it was searched.                               *)
C23_TopicTrimmedOrQuery ==
    [][\A id \in ResultIdChoices, t \in Topics :
          (save_to_db(id, t) /\ lastOp'.text = "saved")
             => /\ \A i, j \in 1..Len(NewRows) : NewRows[i].topic = NewRows[j].topic
                /\ \A i \in 1..Len(NewRows) :
                      NewRows[i].topic =
                         (IF t # None /\ Trim(t[1]) # <<>> THEN Trim(t[1])
                          ELSE ResultOf(id).query)]_vars

\* one result was saved under a topic and again without one: the rows of
\* the first save carry the trimmed topic, those of the second the query
C23_Witness ==
    /\ lastOp.op = "save_to_db"
    /\ lastOp.text = "saved"
    /\ Len(lastOp.ids) >= 2
    /\ Len(rows) = 2 * Len(lastOp.ids)
    /\ \A i \in 1..Len(rows) :
          rows[i].topic = IF rows[i].id \in Range(lastOp.ids)
                          THEN ResultOf(lastOp.handle).query
                          ELSE <<"k">>

---------------------------------------------------------------------------
(* A batch in which one insert fails.                                      *)

(* C24: when the insert of row k of a batch fails, the rows of the batch   *)
(* before it stay in the repository, the rows after it are inserted all    *)
(* the same, and the caller is given the ids of the rows that were         *)
(* inserted.                                                               *)
C24_BestEffortPerRow ==
    [][\A rs \in Batches, k \in 1..MaxBatch :
          RepoSaveManyFailing(rs, k)
             => /\ IsPrefix(rows, rows')
                /\ Len(rows') = Len(rows) + Len(rs) - 1
                /\ reply'.ids = [i \in 1..(Len(rows') - Len(rows)) |->
                                    rows'[Len(rows) + i].id]]_vars

---------------------------------------------------------------------------
(* The life of a cache entry.                                              *)

(* C25: every step leaves each entry of the cache as it was, removes it,   *)
(* or is a successful search_web that adds one entry under a handle never  *)
(* issued before; a handle is the key of at most one entry, and a handle   *)
(* that was issued and is no longer in the cache is in the cache never     *)
(* again.                                                                  *)
C25_EntriesImmutableHandlesFresh ==
    [][\/ /\ searchCache' = searchCache
          /\ IssuedIds \subseteq IssuedIds'
       \/ \A old \in {Range(searchCache)} :
          \A oldIds \in {CacheIds(searchCache)} :
          \A newIds \in {CacheIds(searchCache')} :
             /\ \A i \in 1..Len(searchCache') :
                   \/ searchCache'[i] \in old
                   \/ /\ searchCache'[i].id \notin IssuedIds
                      /\ lastOp'.op = "search_web"
                      /\ ~lastOp'.thrown
                      /\ searchCache'[i].id = lastOp'.handle
                      /\ i = Len(searchCache')
             /\ Cardinality(newIds) = Len(searchCache')
             /\ \A h \in IssuedIds \ oldIds : h \notin newIds]_vars

\* an issued handle has left the cache, and a later search has added its
\* entry under another handle, which a save then found unchanged
C25_Witness ==
    /\ lastOp.op = "save_to_db"
    /\ lastOp.text = "saved"
    /\ \E h \in DOMAIN issued :
          /\ h \notin CacheIds(searchCache)
          /\ lastOp.handle > h
    /\ \E i \in 1..Len(searchCache) :
          /\ searchCache[i].id = lastOp.handle
          /\ searchCache[i].query = issued[lastOp.handle].query
          /\ searchCache[i].answerText = issued[lastOp.handle].answerText
          /\ searchCache[i].sources = issued[lastOp.handle].sources
          /\ searchCache[i].createdAt = issued[lastOp.handle].createdAt

---------------------------------------------------------------------------
(* Requests of several sessions, interleaved.                              *)

\* the sum of the lengths of the sessions' queues
InFlight(p) == Len(p["s1"]) + Len(p["s2"])

LaterSearches(iss, h) == WarmCount + Cardinality(DOMAIN iss) - h

(* C27: under a clock that is never set back, a handle issued by           *)
(* search_web is in the cache as long as at most the TTL has elapsed since *)
(* it was issued and fewer than 200 later searches, of any session, have   *)
(* completed; a save on such a handle does not return the cache-miss text. *)
(* And an entry leaves the cache only when it is older than the TTL, or    *)
(* when the cache is full of 200 entries all put after it.                 *)
C27_RetainedWithinTtlAndCapacity ==
    [][/\ now' >= now
       /\ \A ids \in {CacheIds(searchCache')} :
          \A last \in {WarmCount + Cardinality(DOMAIN issued')} :
             \A h \in (IF warm THEN 1..WarmCount ELSE {}) \cup DOMAIN issued' :
                (/\ now' - ResultOfIn(issued', h).createdAt <= SEARCH_CACHE_TTL_MS
                 /\ last - h < SEARCH_CACHE_MAX_ITEMS)
                   => h \in ids
       /\ (lastOp'.op = "save_to_db" /\ ops' = ops + 1)
            => \A h \in {lastOp'.handle} :
                  (/\ h \in IssuedIds
                   /\ now - ResultOf(h).createdAt <= SEARCH_CACHE_TTL_MS
                   /\ LaterSearches(issued, h) < SEARCH_CACHE_MAX_ITEMS)
                     => lastOp'.text = "saved"
       /\ searchCache' # searchCache
            => \A gone \in {CacheIds(searchCache) \ CacheIds(searchCache')} :
                  /\ \A g \in gone :
                        \/ now' - ResultOf(g).createdAt > SEARCH_CACHE_TTL_MS
                        \/ /\ Len(searchCache') = SEARCH_CACHE_MAX_ITEMS
                           /\ \A k \in 1..Len(searchCache') : searchCache'[k].id > g
                  /\ (lastOp'.op = "search_web" /\ ~lastOp'.thrown)
                       => lastOp'.handle \in CacheIds(searchCache')]_vars

\* at both limits at once: exactly the TTL after the start, with 199 later
\* searches completed, a save on the oldest handle found its entry
C27_Witness ==
    /\ warm
    /\ lastOp.op = "save_to_db"
    /\ lastOp.text = "saved"
    /\ lastOp.handle = 1
    /\ now - BootTime = SEARCH_CACHE_TTL_MS
    /\ LaterSearches(issued, 1) = SEARCH_CACHE_MAX_ITEMS - 1
    /\ Len(searchCache) = SEARCH_CACHE_MAX_ITEMS

=============================================================================
